---- MODULE Spec2Model ----
(***************************************************************************)
(* A model of src/sip/CreateWcsWithSip.cc: the polynomial term indexer     *)
(* indexToPQ, the design-matrix builder calculateCMatrix and the           *)
(* CreateWcsWithSip constructor with its forward and reverse fits and its  *)
(* scatter queries.                                                        *)
(*                                                                         *)
(* Real arithmetic is outside TLA+.  The exponent bookkeeping, the control *)
(* flow, the order and size checks and every matrix write are modelled as  *)
(* the code performs them; the real-valued output of the singular-value    *)
(* solve is abstracted by a coefficient vector drawn from a bounded family *)
(* (Solution), and the normalisation scale is taken to be 1.               *)
(***************************************************************************)
EXTENDS Integers, Sequences, FiniteSets, TLC

\* ------------------------------------------------------------- bounds
\* requested orders tried by the constructor are -NegOrders .. MaxOrder
MaxOrder == 10
NegOrders == 3
\* the match list holds 0 .. MaxMatches matches
MaxMatches == 10
\* number of distinct solver outcomes per fit
NumFits == 2
\* number of distinct caller-supplied linear transforms
NumWcs == 2
\* the explicit grid resolution tried (0 stands for "not supplied")
GridArg == 3
\* orders tried for indexToPQ alone are 0 .. MaxIndexOrder
MaxIndexOrder == 10
\* indices tried for indexToPQ are -ExtraIndex .. nTerms - 1 + ExtraIndex
ExtraIndex == 2
\* orders tried for calculateCMatrix alone are 1 .. MaxCOrder
MaxCOrder == 9
\* sample vectors hold 0 .. MaxSamples samples
MaxSamples == 2

\* ----------------------------------------------------- program constants
\* "SIP must be at least 2nd order"
MinOrder == 2
\* the convention limit of the forward and the reverse order
SipLimit == 9

\* sample values: 2 and 3 are coprime, so 2^p * 3^q identifies (p, q);
\* 0 exercises pow(0, 0) = 1
SampleValues == {0, 2, 3}

Null == [kind |-> "null"]

VARIABLES
    ix,          \* one call of indexToPQ: its arguments and loop variables
    cm,          \* one call of calculateCMatrix: its arguments and result
    pc,          \* position of the constructor / object life cycle
    arg,         \* the constructor's arguments
    error,       \* the exception the constructor threw, if any
    matches,     \* _matches (its size)
    bbox,        \* _bbox
    ngrid,       \* _ngrid
    linearWcs,   \* _linearWcs
    sipOrder,    \* _sipOrder
    reverseSipOrder, \* _reverseSipOrder
    sipA, sipB, sipAp, sipBp,  \* _sipA, _sipB, _sipAp, _sipBp
    newWcs,      \* _newWcs
    local,       \* locals of the running member function
    writes,      \* per matrix and cell: number of element writes so far
    queried,     \* the transform the reverse fit called undistortPixel on
    trace,       \* the constructor's completed steps, in order
    lastQuery    \* the last scatter query and the transform it measured

vars == <<ix, cm, pc, arg, error, matches, bbox, ngrid, linearWcs, sipOrder,
          reverseSipOrder, sipA, sipB, sipAp, sipBp, newWcs, local, writes,
          queried, trace, lastQuery>>

ctorVars == <<pc, arg, error, matches, bbox, ngrid, linearWcs, sipOrder,
              reverseSipOrder, sipA, sipB, sipAp, sipBp, newWcs, local,
              writes, queried, trace, lastQuery>>

\* ------------------------------------------------------------ indexToPQ
\* the for loop's condition (and the same with > for >=)
LoopCondOffByOne(q, decrement) == q > decrement /\ decrement > 0
LoopCond(q, decrement) == q >= decrement /\ decrement > 0

RECURSIVE indexToPQLoop(_, _, _)
indexToPQLoop(p, q, decrement) ==
    IF LoopCond(q, decrement)
    THEN indexToPQLoop(p + 1, q - decrement, decrement - 1)
    ELSE <<p, q>>

\* the pair returned as (q, p)
indexToPQSwapped(index, order) ==
    <<indexToPQLoop(0, index, order)[2], indexToPQLoop(0, index, order)[1]>>
indexToPQ(index, order) == indexToPQLoop(0, index, order)

\* int nTerms = 0.5*order*(order+1)
nTermsOf(order) == (order * (order + 1)) \div 2

\* ::pow for non-negative integer exponents; pow(0, 0) = 1
RECURSIVE pow(_, _)
pow(x, n) == IF n = 0 THEN 1 ELSE x * pow(x, n - 1)

\* -------------------------------------------------------- calculateCMatrix
\* C(i, j) = pow(axis1[i], p) * pow(axis2[i], q); rows and columns are
\* 0-based as in the code, the sample vectors are 1-based sequences
\* (and the same with the two exponents exchanged)
calculateCMatrixSwapped(axis1, axis2, order) ==
    [i \in 0 .. Len(axis1) - 1 |->
        [j \in 0 .. nTermsOf(order) - 1 |->
            LET pq == indexToPQ(j, order) IN
            pow(axis1[i + 1], pq[2]) * pow(axis2[i + 1], pq[1])]]
calculateCMatrix(axis1, axis2, order) ==
    [i \in 0 .. Len(axis1) - 1 |->
        [j \in 0 .. nTermsOf(order) - 1 |->
            LET pq == indexToPQ(j, order) IN
            pow(axis1[i + 1], pq[1]) * pow(axis2[i + 1], pq[2])]]

\* assert(p + q < order) for every column
CMatrixAssertHolds(order) ==
    \A j \in 0 .. nTermsOf(order) - 1 :
        indexToPQ(j, order)[1] + indexToPQ(j, order)[2] < order


\* ------------------------------------------------------------ data values
\* Eigen::MatrixXd::Zero(rows, cols); cells are (row, column), 0-based
Zero(rows, cols) ==
    [alloc |-> TRUE, rows |-> rows, cols |-> cols,
     at |-> [c \in (0 .. rows - 1) \X (0 .. cols - 1) |-> 0]]

\* a matrix member before its initialiser has run
Unconstructed == [alloc |-> FALSE, rows |-> 0, cols |-> 0, at |-> <<>>]

\* whether (p, q) is an element of matrix m
InMatrix(m, p, q) == p >= 0 /\ p < m.rows /\ q >= 0 /\ q < m.cols

\* m(p, q) = v
Store(m, p, q, v) == [m EXCEPT !.at[<<p, q>>] = v]

\* afwImg::Wcs(crval, crpix, CD): the linear transform, CD in the order
\* <<CD(0,0), CD(0,1), CD(1,0), CD(1,1)>>
Wcs(crval, crpix, CD) ==
    [kind |-> "Wcs", crval |-> crval, crpix |-> crpix, CD |-> CD]

\* afwImg::TanWcs(crval, crpix, CD, sipA, sipB, sipAp, sipBp)
\* (and the same with the forward and reverse matrices exchanged)
TanWcsSwapped(crval, crpix, CD, A, B, Ap, Bp) ==
    [kind |-> "TanWcs", crval |-> crval, crpix |-> crpix, CD |-> CD,
     A |-> Ap, B |-> Bp, Ap |-> A, Bp |-> B]
TanWcs(crval, crpix, CD, A, B, Ap, Bp) ==
    [kind |-> "TanWcs", crval |-> crval, crpix |-> crpix, CD |-> CD,
     A |-> A, B |-> B, Ap |-> Ap, Bp |-> Bp]

\* the k-th linear transform a caller may supply
CallerWcs(k) == Wcs(k, <<k, k + 1>>, <<k, 0, 0, k>>)

\* leastSquaresSolve: one parameter per column of the design matrix; the
\* decomposition's real result is abstracted by the fit-th member of a
\* bounded family of integer vectors (zero entries included)
Solution(fit, nTerms) == [i \in 0 .. nTerms - 1 |-> (fit + i) % 3]

\* CD.inverse() up to the factor 1/det: the adjugate, same element order
Inverse2(CD) == <<CD[4], 0 - CD[2], 0 - CD[3], CD[1]>>

\* the locals of the member function in progress
NoLocals ==
    [mu |-> <<>>, nu |-> <<>>, tmpA |-> <<>>, tmpB |-> <<>>, i |-> 0,
     CDinv |-> <<0, 0, 0, 0>>, crval |-> 0, crpix |-> <<0, 0>>,
     CD |-> <<0, 0, 0, 0>>]

NoWrites == [m \in {"A", "B", "Ap", "Bp"} |-> <<>>]

\* every cell of a matrix of the given size, not yet written
Unwritten(rows, cols) == [c \in (0 .. rows - 1) \X (0 .. cols - 1) |-> 0]

NoQuery == [fn |-> "none", wcs |-> Null]

IxIdle == [pc |-> "idle", index |-> 0, order |-> 0, p |-> 0, q |-> 0,
           decrement |-> 0]

CmIdle == [pc |-> "idle", axis1 |-> <<>>, axis2 |-> <<>>, order |-> 0,
           C |-> <<>>]

CtorIdle ==
    /\ pc = "idle"
    /\ arg = [order |-> 0, nMatches |-> 0, wcs |-> 1, bboxEmpty |-> FALSE,
              ngrid |-> 0]
    /\ error = "none"
    /\ matches = 0
    /\ bbox = "none"
    /\ ngrid = 0
    /\ linearWcs = Null
    /\ sipOrder = 0
    /\ reverseSipOrder = 0
    /\ sipA = Unconstructed
    /\ sipB = Unconstructed
    /\ sipAp = Unconstructed
    /\ sipBp = Unconstructed
    /\ newWcs = Null
    /\ local = NoLocals
    /\ writes = NoWrites
    /\ queried = Null
    /\ trace = <<>>
    /\ lastQuery = NoQuery

\* ------------------------------------------------- indexToPQ, step by step
\* int p = 0, q = index; decrement = order
IxEnter(index, order) ==
    [pc |-> "loop", index |-> index, order |-> order, p |-> 0, q |-> index,
     decrement |-> order]

\* one iteration of the for loop: q -= decrement; p++; --decrement
IxIterate ==
    /\ ix.pc = "loop"
    /\ LoopCond(ix.q, ix.decrement)
    /\ ix' = [ix EXCEPT !.q = @ - ix.decrement, !.p = @ + 1,
                        !.decrement = @ - 1]
    /\ UNCHANGED <<cm, ctorVars>>

\* return std::make_pair(p, q)
IxReturn ==
    /\ ix.pc = "loop"
    /\ ~LoopCond(ix.q, ix.decrement)
    /\ ix' = [ix EXCEPT !.pc = "returned"]
    /\ UNCHANGED <<cm, ctorVars>>

InitIndex ==
    /\ \E order \in 0 .. MaxIndexOrder :
       \E index \in (0 - ExtraIndex) .. (nTermsOf(order) - 1 + ExtraIndex) :
          ix = IxEnter(index, order)
    /\ cm = CmIdle
    /\ CtorIdle

NextIndex == IxIterate \/ IxReturn

SpecIndex == InitIndex /\ [][NextIndex]_vars

\* ------------------------------------------------ calculateCMatrix, a call
SampleVectors == UNION {[1 .. n -> SampleValues] : n \in 0 .. MaxSamples}

\* axis2 extended to length n by the value g (what a read past its end
\* yields in a build without Eigen's index assertion)
ReadPastEnd(axis2, n, g) ==
    [i \in 1 .. n |-> IF i <= Len(axis2) THEN axis2[i] ELSE g]

\* the size of axis1 alone sets the row count; axis2[i] is read for every
\* row i when there is at least one column
CmCall ==
    /\ cm.pc = "call"
    /\ LET n == Len(cm.axis1) IN
       IF n > 0 /\ nTermsOf(cm.order) > 0 /\ ~CMatrixAssertHolds(cm.order)
       THEN cm' = [cm EXCEPT !.pc = "abort"]
       ELSE IF Len(cm.axis2) >= n \/ nTermsOf(cm.order) = 0
       THEN cm' = [cm EXCEPT !.pc = "returned",
                     !.C = calculateCMatrix(cm.axis1, cm.axis2, cm.order)]
       ELSE \/ cm' = [cm EXCEPT !.pc = "abort"]
            \/ \E g \in SampleValues :
                 cm' = [cm EXCEPT !.pc = "returned",
                          !.C = calculateCMatrix(cm.axis1,
                                    ReadPastEnd(cm.axis2, n, g), cm.order)]
    /\ UNCHANGED <<ix, ctorVars>>

InitCMatrix ==
    /\ \E a2 \in SampleVectors, a1 \in SampleVectors, order \in 1 .. MaxCOrder :
          cm = [pc |-> "call", axis1 |-> a1, axis2 |-> a2, order |-> order,
                C |-> <<>>]
    /\ ix = IxIdle
    /\ CtorIdle

NextCMatrix == CmCall

SpecCMatrix == InitCMatrix /\ [][NextCMatrix]_vars


\* ------------------------------------------------ CreateWcsWithSip(...)
\* the member initialisers: the coefficient matrices are sized from the
\* requested order here, before the constructor body validates it.  A
\* negative dimension is outside Eigen's contract: the build either stops
\* on Eigen's assertion, throws std::bad_alloc from its size check, or
\* goes on with a matrix that has no cells.
MemberInit ==
    /\ pc = "call"
    /\ matches' = arg.nMatches
    /\ bbox' = IF arg.bboxEmpty THEN "empty" ELSE "given"
    /\ ngrid' = arg.ngrid
    /\ linearWcs' = CallerWcs(arg.wcs)
    /\ sipOrder' = arg.order + 1
    /\ reverseSipOrder' = arg.order + 2
    /\ newWcs' = Null
    /\ IF arg.order + 1 < 0
       THEN \/ /\ pc' = "abort"
               /\ error' = "assertion"
               /\ UNCHANGED <<sipA, sipB, sipAp, sipBp>>
            \/ /\ pc' = "threw"
               /\ error' = "bad_alloc"
               /\ UNCHANGED <<sipA, sipB, sipAp, sipBp>>
            \/ /\ pc' = "body"
               /\ sipA' = Zero(arg.order + 1, arg.order + 1)
               /\ sipB' = Zero(arg.order + 1, arg.order + 1)
               /\ sipAp' = Zero(arg.order + 2, arg.order + 2)
               /\ sipBp' = Zero(arg.order + 2, arg.order + 2)
               /\ UNCHANGED error
       ELSE /\ pc' = "body"
            /\ sipA' = Zero(arg.order + 1, arg.order + 1)
            /\ sipB' = Zero(arg.order + 1, arg.order + 1)
            /\ sipAp' = Zero(arg.order + 2, arg.order + 2)
            /\ sipBp' = Zero(arg.order + 2, arg.order + 2)
            /\ UNCHANGED error
    /\ writes' = [m \in {"A", "B", "Ap", "Bp"} |->
                    IF m \in {"A", "B"}
                    THEN Unwritten(arg.order + 1, arg.order + 1)
                    ELSE Unwritten(arg.order + 2, arg.order + 2)]
    /\ UNCHANGED <<ix, cm, arg, local, queried, trace, lastQuery>>

\* the exception the checks at the top of the constructor body throw for
\* these member values, "none" when they all pass
\* the checks with >= for > on the reverse order, and with <= for < on the
\* number of matches
OrderCheckReverseAtLimit(order, fwd, rev, nMatches) ==
    IF order < MinOrder THEN "OutOfRangeError: at least 2nd order"
    ELSE IF fwd > SipLimit THEN "OutOfRangeError: forward order exceeds limit"
    ELSE IF rev >= SipLimit THEN "OutOfRangeError: reverse order exceeds limit"
    ELSE IF nMatches < fwd THEN "LengthError: matches less than sip order"
    ELSE "none"
OrderCheckMatchesAtLimit(order, fwd, rev, nMatches) ==
    IF order < MinOrder THEN "OutOfRangeError: at least 2nd order"
    ELSE IF fwd > SipLimit THEN "OutOfRangeError: forward order exceeds limit"
    ELSE IF rev > SipLimit THEN "OutOfRangeError: reverse order exceeds limit"
    ELSE IF nMatches <= fwd THEN "LengthError: matches less than sip order"
    ELSE "none"
OrderCheck(order, fwd, rev, nMatches) ==
    IF order < MinOrder THEN "OutOfRangeError: at least 2nd order"
    ELSE IF fwd > SipLimit THEN "OutOfRangeError: forward order exceeds limit"
    ELSE IF rev > SipLimit THEN "OutOfRangeError: reverse order exceeds limit"
    ELSE IF nMatches < fwd THEN "LengthError: matches less than sip order"
    ELSE "none"

Validate ==
    /\ pc = "body"
    /\ error' = OrderCheck(arg.order, sipOrder, reverseSipOrder, matches)
    /\ pc' = IF error' = "none" THEN "setup" ELSE "threw"
    /\ UNCHANGED <<ix, cm, arg, matches, bbox, ngrid, linearWcs, sipOrder,
                   reverseSipOrder, sipA, sipB, sipAp, sipBp, newWcs, local,
                   writes, queried, trace, lastQuery>>

\* the default grid resolution and the bounding box guessed from the matches
Setup ==
    /\ pc = "setup"
    /\ ngrid' = IF ngrid <= 0 THEN 5 * sipOrder ELSE ngrid
    /\ bbox' = IF bbox = "empty" /\ matches # 0 THEN "derived" ELSE bbox
    /\ pc' = "forward"
    /\ UNCHANGED <<ix, cm, arg, error, matches, linearWcs, sipOrder,
                   reverseSipOrder, sipA, sipB, sipAp, sipBp, newWcs, local,
                   writes, queried, trace, lastQuery>>

\* the three assertions on indexToPQ in _calculateForwardMatrices
ForwardAssertsHold(ord) ==
    /\ indexToPQ(0, ord) = <<0, 0>>
    /\ indexToPQ(1, ord) = <<0, 1>>
    /\ indexToPQ(ord, ord) = <<1, 0>>

\* the linear transform _calculateForwardMatrices installs: CD from the
\* linear terms of mu and nu, crpix shifted by the constant terms
RefinedWcs(old, mu, nu, ord) ==
    LET CD == <<mu[ord], mu[1], nu[ord], nu[1]>>
        CDinv == Inverse2(CD)
    IN  Wcs(old.crval,
            <<old.crpix[1] - (mu[0] * CDinv[1] + nu[0] * CDinv[2]),
              old.crpix[2] - (mu[0] * CDinv[3] + nu[0] * CDinv[4])>>,
            CD)

\* _calculateForwardMatrices up to the replacement of _linearWcs: the two
\* solves, the assertions, the refined CD matrix and pixel origin
ForwardFit ==
    /\ pc = "forward"
    /\ \E fit \in 1 .. NumFits :
         LET ord == sipOrder
             mu == Solution(fit, nTermsOf(ord))
             nu == Solution(fit + 1, nTermsOf(ord))
         IN  IF ~CMatrixAssertHolds(ord) \/ ~ForwardAssertsHold(ord)
             THEN /\ pc' = "abort"
                  /\ error' = "assertion"
                  /\ UNCHANGED <<linearWcs, local>>
             ELSE /\ pc' = "forwardStore"
                  /\ linearWcs' = RefinedWcs(linearWcs, mu, nu, ord)
                  /\ local' = [NoLocals EXCEPT !.mu = mu, !.nu = nu, !.i = 1,
                                 !.CDinv = Inverse2(<<mu[ord], mu[1],
                                                      nu[ord], nu[1]>>)]
                  /\ UNCHANGED error
    /\ UNCHANGED <<ix, cm, arg, matches, bbox, ngrid, sipOrder,
                   reverseSipOrder, sipA, sipB, sipAp, sipBp, newWcs, writes,
                   queried, trace, lastQuery>>

\* whether the forward loop stores the term with exponents (p, q) (and the
\* same without the lower limit on the degree)
ForwardKeepsAll(p, q, ord) == p + q < ord
ForwardKeeps(p, q, ord) == p + q > 1 /\ p + q < ord

\* one iteration of the loop over mu that stores _sipA(p,q) and _sipB(p,q)
ForwardStore ==
    /\ pc = "forwardStore"
    /\ local.i < nTermsOf(sipOrder)
    /\ LET i == local.i
           p == indexToPQ(i, sipOrder)[1]
           q == indexToPQ(i, sipOrder)[2]
           A == local.CDinv[1] * local.mu[i] + local.CDinv[2] * local.nu[i]
           B == local.CDinv[3] * local.mu[i] + local.CDinv[4] * local.nu[i]
       IN  IF ~ForwardKeeps(p, q, sipOrder)
           THEN /\ pc' = pc
                /\ UNCHANGED <<error, sipA, sipB, writes>>
           ELSE IF ~InMatrix(sipA, p, q)
           THEN /\ pc' = "abort"
                /\ error' = "index out of range"
                /\ UNCHANGED <<sipA, sipB, writes>>
           ELSE /\ pc' = pc
                /\ sipA' = Store(sipA, p, q, A)
                /\ sipB' = Store(sipB, p, q, B)
                /\ writes' = [writes EXCEPT !["A"][<<p, q>>] = @ + 1,
                                            !["B"][<<p, q>>] = @ + 1]
                /\ UNCHANGED error
    /\ local' = [local EXCEPT !.i = @ + 1]
    /\ UNCHANGED <<ix, cm, arg, matches, bbox, ngrid, linearWcs, sipOrder,
                   reverseSipOrder, sipAp, sipBp, newWcs, queried, trace,
                   lastQuery>>

\* _calculateForwardMatrices returns
ForwardDone ==
    /\ pc = "forwardStore"
    /\ local.i >= nTermsOf(sipOrder)
    /\ pc' = "build"
    /\ local' = NoLocals
    /\ trace' = Append(trace, "forwardFit")
    /\ UNCHANGED <<ix, cm, arg, error, matches, bbox, ngrid, linearWcs,
                   sipOrder, reverseSipOrder, sipA, sipB, sipAp, sipBp,
                   newWcs, writes, queried, lastQuery>>

\* the composite transform "incorporating the forward sip matrix"; crval,
\* crpix and CD are read from _linearWcs here and kept for the rebuild
BuildWcs ==
    /\ pc = "build"
    /\ local' = [local EXCEPT !.crval = linearWcs.crval,
                              !.crpix = linearWcs.crpix,
                              !.CD = linearWcs.CD]
    /\ newWcs' = TanWcs(linearWcs.crval, linearWcs.crpix, linearWcs.CD,
                        sipA, sipB, sipAp, sipBp)
    /\ trace' = Append(trace, "build")
    /\ pc' = "reverse"
    /\ UNCHANGED <<ix, cm, arg, error, matches, bbox, ngrid, linearWcs,
                   sipOrder, reverseSipOrder, sipA, sipB, sipAp, sipBp,
                   writes, queried, lastQuery>>

\* _calculateReverseMatrices up to the two solves: every grid point is
\* passed to _newWcs->undistortPixel
ReverseFit ==
    /\ pc = "reverse"
    /\ queried' = newWcs
    /\ \E fit \in 1 .. NumFits :
         LET ord == reverseSipOrder IN
         IF ~CMatrixAssertHolds(ord)
         THEN /\ pc' = "abort"
              /\ error' = "assertion"
              /\ UNCHANGED local
         ELSE /\ pc' = "reverseStore"
              /\ local' = [local EXCEPT
                             !.tmpA = Solution(fit, nTermsOf(ord)),
                             !.tmpB = Solution(fit + 1, nTermsOf(ord)),
                             !.i = 0]
              /\ UNCHANGED error
    /\ UNCHANGED <<ix, cm, arg, matches, bbox, ngrid, linearWcs, sipOrder,
                   reverseSipOrder, sipA, sipB, sipAp, sipBp, newWcs, writes,
                   trace, lastQuery>>

\* one iteration of the loop over tmpA that stores _sipAp(p,q), _sipBp(p,q)
ReverseStore ==
    /\ pc = "reverseStore"
    /\ local.i < nTermsOf(reverseSipOrder)
    /\ LET j == local.i
           p == indexToPQ(j, reverseSipOrder)[1]
           q == indexToPQ(j, reverseSipOrder)[2]
       IN  IF ~InMatrix(sipAp, p, q)
           THEN /\ pc' = "abort"
                /\ error' = "index out of range"
                /\ UNCHANGED <<sipAp, sipBp, writes>>
           ELSE /\ pc' = pc
                /\ sipAp' = Store(sipAp, p, q, local.tmpA[j])
                /\ sipBp' = Store(sipBp, p, q, local.tmpB[j])
                /\ writes' = [writes EXCEPT !["Ap"][<<p, q>>] = @ + 1,
                                            !["Bp"][<<p, q>>] = @ + 1]
                /\ UNCHANGED error
    /\ local' = [local EXCEPT !.i = @ + 1]
    /\ UNCHANGED <<ix, cm, arg, matches, bbox, ngrid, linearWcs, sipOrder,
                   reverseSipOrder, sipA, sipB, newWcs, queried, trace,
                   lastQuery>>

\* _calculateReverseMatrices returns
ReverseDone ==
    /\ pc = "reverseStore"
    /\ local.i >= nTermsOf(reverseSipOrder)
    /\ pc' = "rebuild"
    /\ local' = [local EXCEPT !.tmpA = <<>>, !.tmpB = <<>>, !.i = 0]
    /\ trace' = Append(trace, "reverseFit")
    /\ UNCHANGED <<ix, cm, arg, error, matches, bbox, ngrid, linearWcs,
                   sipOrder, reverseSipOrder, sipA, sipB, sipAp, sipBp,
                   newWcs, writes, queried, lastQuery>>

\* the composite transform "incorporating both of the sip matrices", from
\* the same crval, crpix and CD as the first
RebuildWcs ==
    /\ pc = "rebuild"
    /\ newWcs' = TanWcs(local.crval, local.crpix, local.CD,
                        sipA, sipB, sipAp, sipBp)
    /\ trace' = Append(trace, "rebuild")
    /\ pc' = "done"
    /\ UNCHANGED <<ix, cm, arg, error, matches, bbox, ngrid, linearWcs,
                   sipOrder, reverseSipOrder, sipA, sipB, sipAp, sipBp,
                   local, writes, queried, lastQuery>>

\* ------------------------------------------------------- scatter queries
\* a query measures the matches against the transform it is handed
Measure(fn, wcs) ==
    /\ pc = "done"
    /\ lastQuery' = [fn |-> fn, wcs |-> wcs]
    /\ UNCHANGED <<ix, cm, pc, arg, error, matches, bbox, ngrid, linearWcs,
                   sipOrder, reverseSipOrder, sipA, sipB, sipAp, sipBp,
                   newWcs, local, writes, queried, trace>>

getScatterInPixels == Measure("getScatterInPixels", newWcs)

getLinearScatterInPixels == Measure("getLinearScatterInPixels", linearWcs)

getScatterOnSky == Measure("getScatterOnSky", newWcs)

getLinearScatterOnSky == Measure("getLinearScatterOnSky", linearWcs)

\* ----------------------------------------------------------- specification
Init ==
    /\ ix = IxIdle
    /\ cm = CmIdle
    /\ pc = "call"
    \* the requested orders MaxOrder, MaxOrder - 1, ..., -NegOrders
    /\ \E down \in 0 .. MaxOrder + NegOrders, n \in 0 .. MaxMatches,
          k \in 1 .. NumWcs, e \in BOOLEAN, g \in {0, GridArg} :
          arg = [order |-> MaxOrder - down, nMatches |-> n, wcs |-> k,
                 bboxEmpty |-> e, ngrid |-> g]
    /\ error = "none"
    /\ matches = 0
    /\ bbox = "none"
    /\ ngrid = 0
    /\ linearWcs = Null
    /\ sipOrder = 0
    /\ reverseSipOrder = 0
    /\ sipA = Unconstructed
    /\ sipB = Unconstructed
    /\ sipAp = Unconstructed
    /\ sipBp = Unconstructed
    /\ newWcs = Null
    /\ local = NoLocals
    /\ writes = NoWrites
    /\ queried = Null
    /\ trace = <<>>
    /\ lastQuery = NoQuery

Next ==
    \/ MemberInit
    \/ Validate
    \/ Setup
    \/ ForwardFit
    \/ ForwardStore
    \/ ForwardDone
    \/ BuildWcs
    \/ ReverseFit
    \/ ReverseStore
    \/ ReverseDone
    \/ RebuildWcs
    \/ getScatterInPixels
    \/ getLinearScatterInPixels
    \/ getScatterOnSky
    \/ getLinearScatterOnSky

Spec == Init /\ [][Next]_vars


\* ================================================================ claims
RangeExceeded == {"OutOfRangeError: forward order exceeds limit",
                  "OutOfRangeError: reverse order exceeds limit"}

InsufficientMatches == "LengthError: matches less than sip order"

\* the constructor body's checks have run
Validated == pc \notin {"call", "body"}

\* the constructor was given at least order+1 matches
EnoughMatches == arg.nMatches >= arg.order + 1

\* C1 as stated: with enough matches, a requested order whose forward order
\* (order+1) or reverse order (order+2) is 10 fails with the range-exceeded
\* error, and one whose forward or reverse order is exactly 9 does not fail
\* and ends with a composite transform.
C1_Original ==
    (Validated /\ EnoughMatches) =>
        /\ (arg.order + 1 = SipLimit + 1 \/ arg.order + 2 = SipLimit + 1)
              => (pc = "threw" /\ error \in RangeExceeded)
        /\ (arg.order + 1 = SipLimit \/ arg.order + 2 = SipLimit)
              => /\ pc \notin {"threw", "abort"}
                 /\ pc = "done" => newWcs.kind = "TanWcs"

\* C1 as the code has it: with enough matches, a requested order whose
\* forward or reverse order is 10 fails with the range-exceeded error (a
\* forward order of exactly 9 is such an order: its reverse order is 10);
\* a requested order whose reverse order is exactly 9 never fails, can
\* always take its next step until it is done, and ends with a composite
\* transform.
C1_Amended ==
    (Validated /\ EnoughMatches) =>
        /\ (arg.order + 1 = SipLimit + 1 \/ arg.order + 2 = SipLimit + 1)
              => (pc = "threw" /\ error \in RangeExceeded)
        /\ arg.order + 1 = SipLimit
              => (pc = "threw" /\ error \in RangeExceeded)
        /\ arg.order + 2 = SipLimit
              => /\ pc \notin {"threw", "abort"}
                 /\ pc # "done" => ENABLED Next
                 /\ pc = "done" => newWcs.kind = "TanWcs"

\* a construction whose reverse order is exactly 9 has completed
C1_Witness ==
    /\ pc = "done"
    /\ arg.order + 2 = SipLimit
    /\ newWcs.kind = "TanWcs"

\* C2: for every requested order inside the order range (2 <= order,
\* order+1 <= 9, order+2 <= 9), the constructor given order+1 matches or
\* more does not raise the insufficient-matches error, and given fewer it
\* raises exactly that error.
C2_MatchBoundary ==
    (Validated /\ arg.order >= MinOrder /\ arg.order + 2 <= SipLimit) =>
        /\ arg.nMatches >= arg.order + 1
              => (error # InsufficientMatches /\ pc # "threw")
        /\ arg.nMatches < arg.order + 1
              => (pc = "threw" /\ error = InsufficientMatches)

\* a construction given exactly sipOrder matches has passed the checks
C2_Witness ==
    /\ pc = "forward"
    /\ arg.nMatches = sipOrder
    /\ error = "none"

\* C3: the steps of a construction complete in the order forward fit,
\* build, reverse fit, rebuild; the transform the reverse fit queries is
\* made of the linear transform the forward fit installed, the forward
\* matrices as they are from then on, and all-zero reverse matrices; the
\* final transform has the same linear part and forward matrices.
C3_TwoPhase ==
    /\ trace \in {<<>>, <<"forwardFit">>, <<"forwardFit", "build">>,
                  <<"forwardFit", "build", "reverseFit">>,
                  <<"forwardFit", "build", "reverseFit", "rebuild">>}
    /\ pc = "done" => Len(trace) = 4
    /\ queried # Null =>
          /\ Len(trace) >= 2
          /\ trace[1] = "forwardFit"
          /\ queried.kind = "TanWcs"
          /\ queried.crval = linearWcs.crval
          /\ queried.crpix = linearWcs.crpix
          /\ queried.CD = linearWcs.CD
          /\ queried.A = sipA
          /\ queried.B = sipB
          /\ queried.Ap = Zero(arg.order + 2, arg.order + 2)
          /\ queried.Bp = Zero(arg.order + 2, arg.order + 2)
    /\ pc = "done" =>
          /\ queried # Null
          /\ newWcs.crval = queried.crval
          /\ newWcs.crpix = queried.crpix
          /\ newWcs.CD = queried.CD
          /\ newWcs.A = queried.A
          /\ newWcs.B = queried.B
          /\ newWcs.Ap = sipAp
          /\ newWcs.Bp = sipBp

\* a finished construction whose forward and reverse fits stored
\* non-zero coefficients
C3_Witness ==
    /\ pc = "done"
    /\ queried # Null
    /\ \E c \in DOMAIN sipA.at : sipA.at[c] # 0
    /\ \E c \in DOMAIN sipAp.at : sipAp.at[c] # 0

\* C4 as stated: the linear-only scatter queries measure against the
\* transform the caller passed to the constructor, the other two against
\* the final composite transform.
C4_LinearUsesOriginal ==
    /\ lastQuery.fn \in {"getLinearScatterInPixels", "getLinearScatterOnSky"}
          => lastQuery.wcs = CallerWcs(arg.wcs)
    /\ lastQuery.fn \in {"getScatterInPixels", "getScatterOnSky"}
          => lastQuery.wcs = newWcs

\* C5 as stated: a construction that ends in a configuration or a
\* data-sufficiency error has sized no coefficient matrix, run no fit and
\* produced no composite transform.
C5_ErrorBeforeAnyWork ==
    (pc = "threw" /\ error # "bad_alloc") =>
        /\ ~sipA.alloc /\ ~sipB.alloc /\ ~sipAp.alloc /\ ~sipBp.alloc
        /\ trace = <<>>
        /\ queried = Null
        /\ newWcs = Null

\* the pairs (p, q) with p >= 0, q >= 0 and p + q < order
Triangle(order) ==
    {c \in (0 .. order - 1) \X (0 .. order - 1) : c[1] + c[2] < order}

\* C6: for every order in 2..9, indexToPQ maps the indices
\* 0 .. order*(order+1)/2 - 1 one-to-one onto the pairs with p, q >= 0 and
\* p + q < order; and for every index the loop runs at most order times
\* (decrement = order - p stays >= 0) and returns what it has computed.
C6_Bijection ==
    LET order == ix.order
        T == (order * (order + 1)) \div 2
    IN  /\ ix.pc = "loop" =>
              /\ ix.decrement >= 0
              /\ ix.p + ix.decrement = order
              /\ ENABLED NextIndex
        /\ ix.pc = "returned" =>
              <<ix.p, ix.q>> = indexToPQ(ix.index, order)
        /\ (ix.pc = "returned" /\ order \in MinOrder .. SipLimit) =>
              /\ ix.index \in 0 .. T - 1 => <<ix.p, ix.q>> \in Triangle(order)
              /\ \A i, j \in 0 .. T - 1 :
                    i # j => indexToPQ(i, order) # indexToPQ(j, order)
              /\ \A c \in Triangle(order) :
                    \E i \in 0 .. T - 1 : indexToPQ(i, order) = c

\* the last index of the largest order has been mapped
C6_Witness ==
    /\ ix.pc = "returned"
    /\ ix.order = SipLimit
    /\ ix.index = nTermsOf(SipLimit) - 1
    /\ <<ix.p, ix.q>> = <<SipLimit - 1, 0>>

\* C7: for every order in 2..9 (the forward orders the constructor accepts
\* are among them) index 0 maps to (0,0), index 1 to (0,1) and index order
\* to (1,0), so the forward fit's three assertions hold.
C7_FixedPoints ==
    (ix.order \in MinOrder .. SipLimit) =>
        /\ ForwardAssertsHold(ix.order)
        /\ ix.pc = "returned" =>
              /\ ix.index = 0 => <<ix.p, ix.q>> = <<0, 0>>
              /\ ix.index = 1 => <<ix.p, ix.q>> = <<0, 1>>
              /\ ix.index = ix.order => <<ix.p, ix.q>> = <<1, 0>>

\* index = order has been mapped to (1, 0) for an order the constructor
\* accepts
C7_Witness ==
    /\ ix.pc = "returned"
    /\ ix.order = SipLimit - 1
    /\ ix.index = ix.order
    /\ <<ix.p, ix.q>> = <<1, 0>>

\* C8: for sample vectors of equal length n, calculateCMatrix returns (it
\* does not stop) a matrix of n rows and order*(order+1)/2 columns whose
\* entry (i, j) is x_i^p * y_i^q with (p, q) = indexToPQ(j, order); for
\* order 2 a sample (2, 3) gives the row [1, 3, 2].
C8_DesignMatrix ==
    (cm.pc \in {"returned", "abort"} /\ Len(cm.axis1) = Len(cm.axis2)) =>
        LET n == Len(cm.axis1)
            T == (cm.order * (cm.order + 1)) \div 2
        IN  /\ cm.pc = "returned"
            /\ DOMAIN cm.C = 0 .. n - 1
            /\ \A i \in 0 .. n - 1 :
                  /\ DOMAIN cm.C[i] = 0 .. T - 1
                  /\ \A j \in 0 .. T - 1 :
                        cm.C[i][j] =
                            pow(cm.axis1[i + 1], indexToPQ(j, cm.order)[1])
                          * pow(cm.axis2[i + 1], indexToPQ(j, cm.order)[2])
                  /\ (cm.order = 2 /\ cm.axis1[i + 1] = 2
                                   /\ cm.axis2[i + 1] = 3)
                        => (cm.C[i][0] = 1 /\ cm.C[i][1] = 3
                                           /\ cm.C[i][2] = 2)

\* the order-2 row of the sample (2, 3) has been built
C8_Witness ==
    /\ cm.pc = "returned"
    /\ cm.order = 2
    /\ cm.axis1 = <<2>>
    /\ cm.axis2 = <<3>>
    /\ cm.C[0][0] = 1 /\ cm.C[0][1] = 3 /\ cm.C[0][2] = 2

\* C9 as stated: a call of calculateCMatrix with sample vectors of
\* different lengths ends in an invalid-argument error and returns no
\* matrix.
C9_LengthMismatchRejected ==
    (cm.pc # "call" /\ cm.pc # "idle" /\ Len(cm.axis1) # Len(cm.axis2)) =>
        /\ cm.pc = "invalid argument"
        /\ cm.C = <<>>

\* C10: no cell of a coefficient matrix is written twice and no write
\* falls outside its matrix; after a successful construction the forward
\* fit has written A(p,q) and B(p,q) exactly once for exactly the cells
\* with 1 < p+q < forward order, the reverse fit has written A'(p,q) and
\* B'(p,q) exactly once for exactly the cells with p+q < reverse order,
\* and every cell never written is zero.
C10_TriangleWrites ==
    /\ error # "index out of range"
    /\ \A m \in DOMAIN writes : \A c \in DOMAIN writes[m] : writes[m][c] <= 1
    /\ pc = "done" =>
          /\ \A c \in (0 .. arg.order) \X (0 .. arg.order) :
                LET n == IF c[1] + c[2] > 1 /\ c[1] + c[2] < arg.order + 1
                         THEN 1 ELSE 0
                IN  /\ writes["A"][c] = n
                    /\ writes["B"][c] = n
                    /\ n = 0 => (sipA.at[c] = 0 /\ sipB.at[c] = 0)
          /\ \A c \in (0 .. arg.order + 1) \X (0 .. arg.order + 1) :
                LET n == IF c[1] + c[2] < arg.order + 2 THEN 1 ELSE 0
                IN  /\ writes["Ap"][c] = n
                    /\ writes["Bp"][c] = n
                    /\ n = 0 => (sipAp.at[c] = 0 /\ sipBp.at[c] = 0)

\* a finished construction of the smallest order: A(1,1) written once,
\* A(0,1) never, A'(0,0) written once
C10_Witness ==
    /\ pc = "done"
    /\ arg.order = MinOrder
    /\ writes["A"][<<1, 1>>] = 1
    /\ writes["A"][<<0, 1>>] = 0
    /\ writes["Ap"][<<0, 0>>] = 1

====
